---- MODULE Spec2Model ----
(***************************************************************************)
(* Verification model of the ai-productivity web client.                   *)
(*                                                                         *)
(* Part 1: the check-in streak.  Dashboard.handleCheckInSubmit inserts a   *)
(* check_ins row, then applies the streak rule to the Profile copy held in *)
(* React state and writes the result to public.profiles; the TaskWorkspace *)
(* quick check-in only inserts the row.                                    *)
(*                                                                         *)
(* Time is an instant counted in hours since the epoch (UTC).  A client    *)
(* runs in a zone with a fixed offset `tz` (local = UTC + tz hours); DST   *)
(* transitions are not modelled.                                           *)
(*                                                                         *)
(* Part 2: the AIRecommendations panel and the task-recommendations        *)
(* function it calls.                                                      *)
(*                                                                         *)
(* Part 3: the tables of the store with their row-level-security policies  *)
(* and foreign keys, operated by two users through the client API.         *)
(*                                                                         *)
(* Part 4: the Settings page, which saves the work hours of the Profile.   *)
(*                                                                         *)
(* Part 5: the TaskWorkspace page, which edits one task and logs each      *)
(* change to task_history.                                                 *)
(*                                                                         *)
(* Part 6: the next-check-in scheduler of the Dashboard.                   *)
(*                                                                         *)
(* Part 7: the older Dashboard check-in handler beside the current one,    *)
(* the operations that complete and reopen a task, the work sessions of    *)
(* TaskWorkspace, and the useNotifications hook.                           *)
(***************************************************************************)
EXTENDS Integers, Sequences, FiniteSets, TLC

\* ------------------------------------------------------------------ bounds
MaxDays == 2          \* days of wall-clock time explored
MaxCheckIns == 2      \* rows that may be inserted into check_ins
MaxStreak == 3        \* largest streak value drawn for a rule input
MaxInflight == 2      \* task-recommendations requests outstanding at once
MaxRows == 3          \* rows the tables of the store hold together
MaxHistory == 2       \* rows that may be inserted into task_history
MaxFrequency == 4     \* largest check_in_frequency drawn for the scheduler
MaxSessions == 2      \* work sessions that may be started
MaxEnds == 2          \* End-session requests outstanding at once
MaxTimers == 2        \* notifications that may be scheduled
MaxNotifications == 2 \* notifications that may be displayed

\* ------------------------------------------------------- modelling domains
Clients == {"d1", "d2"}          \* two devices of the same user
Users == {"A", "B"}              \* two accounts (auth.uid() values)
RowIds == 1..MaxRows             \* primary keys of the rows of the store
taskId == "t1"                    \* TaskWorkspace: useParams().taskId
NullText == "(null)"             \* SQL NULL in a TEXT column
NoTask == 0                      \* a task_id column that is NULL or absent
TaskIds == {"t1", "t2"}          \* ids of the user's tasks
Offsets == {-6, 0, 6}            \* zone offsets in hours: UTC-6, UTC, UTC+6
TickSteps == {12}                \* the clock is observed twice a day
EpochStart == 24 * 10            \* first instant explored (a UTC midnight)
MaxNow == EpochStart + 24 * MaxDays
EpochDay == EpochStart \div 24       \* day number of the first instant

Task == [k |-> "task"]                 \* id of the task open in TaskWorkspace
NULL == [k |-> "null"]                 \* SQL NULL / JS null
Date(d) == [k |-> "date", d |-> d]     \* a DATE value: day number d
InvalidDate == [k |-> "infinity"]      \* a DATE value that JS cannot parse
Time(t) == [k |-> "time", t |-> t]     \* Date.getTime() of a valid Date
NaN == [k |-> "nan"]                   \* Date.getTime() of an Invalid Date

VARIABLES
    now,            \* current instant (hours, UTC)
    tz,             \* zone offset of the user's devices
    profiles,       \* the user's row of public.profiles
    check_ins,      \* rows of public.check_ins, in insertion order
    profile,        \* per client: React state `profile` (row copy or NULL)
    pc,             \* per client: position inside handleCheckInSubmit
    insertError,    \* per client: `error` of the check_ins insert
    updateError,    \* per client: error of the last profiles update
    payload,        \* per client: the profiles update in flight
    fetchPending,   \* per client: a fetchProfile() request is outstanding
    toasts,         \* per client: number of messages shown to the user
    lastWrite       \* the rule evaluation whose update the store applied
                    \* last: its instant and the Profile copy it read

streakVars == <<now, tz, profiles, check_ins, profile, pc, insertError,
                updateError, payload, fetchPending, toasts, lastWrite>>

VARIABLES
    isLoading,        \* AIRecommendations: useState isLoading
    recommendations,  \* AIRecommendations: useState recommendations
    scheduledTasks,   \* AIRecommendations: ids scheduled or skipped
    crashed,          \* a render of the panel has thrown
    inflight,         \* task-recommendations requests not yet answered
    lastResponse,     \* the response handled last by getRecommendations
    signedOut,        \* supabase.auth.signOut() + navigate('/auth') done
    recToasts,        \* titles of the toasts the panel has shown
    hasSession,       \* AIRecommendations: useState hasSession
    tasks,            \* public.tasks: the row of each task
    lastServe,        \* the last run of the task-recommendations function:
                      \* what it found, whether it called the AI, its answer
    lastToast         \* the toast the panel has shown last

recVars == <<isLoading, recommendations, scheduledTasks, crashed, inflight,
             lastResponse, signedOut, recToasts, hasSession, tasks,
             lastServe, lastToast>>

VARIABLES
    store,      \* per row id: the row with that primary key, or NULL
    actor,      \* auth.uid() of the request the store handled last
    returned    \* ids of the rows the last select returned

storeVars == <<store, actor, returned>>

VARIABLES
    work_hours,   \* columns work_hours_start, work_hours_end of the user's
                  \* row of public.profiles (the other columns: `profiles`)
    loading       \* Settings: useState loading

settingsVars == <<work_hours, loading>>

VARIABLES
    wsTask,         \* TaskWorkspace: useState task (row copy or NULL)
    task_history,   \* rows of public.task_history, in insertion order
    wsOpen,         \* the TaskWorkspace page is displayed
    lastUpdate      \* the tasks update TaskWorkspace issued last: the field
                    \* logged for it and whether the store rejected it

wsVars == <<wsTask, task_history, wsOpen, lastUpdate>>

VARIABLES
    schedIn,    \* what useCheckInScheduler reads: the Profile's work hours
                \* and check_in_frequency, and the local time of day (minutes)
    schedOut    \* what it reports for schedIn, or NULL before it has run

schedVars == <<schedIn, schedOut>>

VARIABLES
    oldProfiles   \* the profiles row as the older Dashboard handler leaves it

VARIABLES
    saving        \* Settings: a call of handleSave is awaiting getUser() or
                  \* the update

VARIABLES
    isWorking,        \* TaskWorkspace: useState isWorking
    sessionStart,     \* TaskWorkspace: useState sessionStart (Time or NULL)
    sessionsStarted,  \* how many work sessions have been started
    endPending,       \* calls of endWorkSession awaiting getUser() or the
                      \* insert: the session and the duration each captured
    work_sessions     \* rows of public.work_sessions, in insertion order,
                      \* each with the session it was computed from

sessionVars == <<isWorking, sessionStart, sessionsStarted, endPending,
                 work_sessions>>

VARIABLES
    supported,          \* the browser has Notification and serviceWorker
    browserPermission,  \* Notification.permission, the browser's own value
    isSupported,        \* useNotifications: useState isSupported
    permission,         \* useNotifications: useState permission
    timers,             \* the timeouts scheduleNotification has set, by id:
                        \* the state sendNotification had captured, and
                        \* whether the timeout is pending, fired or cleared
    notifications       \* the notifications the browser has displayed

notifyVars == <<supported, browserPermission, isSupported, permission, timers,
                notifications>>

pageVars == <<saving, sessionVars, notifyVars>>

otherVars == <<oldProfiles, pageVars>>

vars == <<streakVars, recVars, storeVars, settingsVars, wsVars, schedVars,
          otherVars>>

\* What the actions of one part leave unchanged in the other parts.
streakFrame == <<recVars, storeVars, settingsVars, wsVars, schedVars, otherVars>>
recFrame == <<streakVars, storeVars, settingsVars, wsVars, schedVars, otherVars>>
storeFrame == <<streakVars, recVars, settingsVars, wsVars, schedVars, otherVars>>
settingsFrame == <<recVars, storeVars, wsVars, schedVars, otherVars>>
schedFrame == <<streakVars, recVars, storeVars, settingsVars, wsVars, otherVars>>
wsFrame == <<streakVars, storeVars, settingsVars, schedVars, otherVars,
             isLoading, recommendations,
             scheduledTasks, crashed, inflight, lastResponse, signedOut,
             recToasts, hasSession, lastServe, lastToast>>

\* ------------------------------------------------------------ pure helpers
Max(a, b) == IF a >= b THEN a ELSE b

\* Local calendar day (days since epoch) that contains instant t.
LocalDay(t, off) == (t + off) \div 24

\* a.getTime() === b.getTime(): NaN is equal to nothing, itself included.
SameTime(a, b) == a.k = "time" /\ b.k = "time" /\ a.t = b.t

\* Date.prototype.setHours(0,0,0,0): local midnight of the local day of t.
setHours0(x, off) ==
    IF x.k = "time" THEN Time(LocalDay(x.t, off) * 24 - off) ELSE NaN

\* new Date().toISOString(): the instant written out in UTC.
toISOString(t) == [date |-> t \div 24, hour |-> t % 24]

\* Input conversion of the DATE column: the date part of the text is kept,
\* time of day and zone designator are dropped.
DateColumn(iso) == Date(iso.date)

\* new Date("YYYY-MM-DD"): a date-only string is midnight UTC of that date;
\* any other text gives an Invalid Date.
ParseDate(v) == IF v.k = "date" THEN Time(v.d * 24) ELSE NaN

\* lines 490-491: lastCheckIn normalised to local midnight, null if absent
lastCheckIn(p, off) ==
    IF p.last_check_in_date = NULL THEN NULL
    ELSE setHours0(ParseDate(p.last_check_in_date), off)

\* lines 487-488
today(t, off) == setHours0(Time(t), off)

\* lines 493-494: setDate(getDate() - 1) on a local midnight
yesterday(t, off) == Time(today(t, off).t - 24)

RuleFiresIfEarlier(p, t, off) ==
    \/ lastCheckIn(p, off) = NULL
    \/ /\ lastCheckIn(p, off).k = "time"
       /\ lastCheckIn(p, off).t < today(t, off).t

\* line 496: the guard of the mutation
RuleFires(p, t, off) ==
    \/ lastCheckIn(p, off) = NULL
    \/ ~SameTime(lastCheckIn(p, off), today(t, off))

newStreakIgnoringGap(p, t, off) ==
    IF lastCheckIn(p, off) # NULL THEN p.current_streak + 1 ELSE 1

\* lines 497-501
newStreak(p, t, off) ==
    IF lastCheckIn(p, off) # NULL /\ SameTime(lastCheckIn(p, off), yesterday(t, off))
    THEN p.current_streak + 1
    ELSE 1

NewLongestMissingMax(p, t, off) == p.longest_streak

\* line 505
NewLongest(p, t, off) == Max(p.longest_streak, newStreak(p, t, off))

\* lines 503-507: body of the profiles update
UpdateBody(p, t, off) ==
    [current_streak |-> newStreak(p, t, off),
     longest_streak |-> NewLongest(p, t, off),
     last_check_in_date |-> toISOString(t)]

ApplyUpdateIfNewer(row, body) ==
    IF /\ row.last_check_in_date.k = "date"
       /\ row.last_check_in_date.d > body.last_check_in_date.date
    THEN row
    ELSE [current_streak |-> body.current_streak,
          longest_streak |-> body.longest_streak,
          last_check_in_date |-> DateColumn(body.last_check_in_date)]

\* The row after the store has applied an update body.
ApplyUpdate(row, body) ==
    [current_streak |-> body.current_streak,
     longest_streak |-> body.longest_streak,
     last_check_in_date |-> DateColumn(body.last_check_in_date)]

CheckInsRolledBack(rows, ok) ==
    IF ok \/ rows = <<>> THEN rows ELSE SubSeq(rows, 1, Len(rows) - 1)

\* lines 503-509: nothing is done to check_ins once the update has returned.
CheckInsAfterUpdate(rows, ok) == rows

\* handle_new_user: a new profile takes the column defaults.
NewProfile ==
    [current_streak |-> 0, longest_streak |-> 0, last_check_in_date |-> NULL]

\* handle_new_user: work_hours_start and work_hours_end take the column
\* defaults '09:00:00' and '18:00:00' (hours of the day).
DefaultHours == [start |-> 9, end |-> 18]

\* A new row of public.tasks: a title and a priority, the column defaults
\* for the rest.
NewTask ==
    [title |-> "a", description |-> NullText, notes |-> NullText,
     priority |-> "medium",
     status |-> "not_started", progress |-> 0, due_date |-> NULL,
     completed_at |-> NULL]

\* -------------------------------------------------------------------- Init
InitRec ==
    /\ isLoading = FALSE
    /\ recommendations = NULL
    /\ scheduledTasks = {}
    /\ crashed = FALSE
    /\ inflight = 0
    /\ lastResponse = NULL
    /\ signedOut = FALSE
    /\ recToasts = {}
    /\ hasSession = FALSE
    /\ tasks = [t \in TaskIds |-> NewTask]
    /\ lastServe = NULL
    /\ lastToast = NULL

InitStreak ==
    /\ now = EpochStart
    /\ tz \in Offsets
    /\ profiles = NewProfile
    /\ check_ins = <<>>
    /\ profile = [c \in Clients |-> NewProfile]
    /\ pc = [c \in Clients |-> "idle"]
    /\ insertError = [c \in Clients |-> FALSE]
    /\ updateError = [c \in Clients |-> FALSE]
    /\ payload = [c \in Clients |-> NULL]
    /\ fetchPending = [c \in Clients |-> FALSE]
    /\ toasts = [c \in Clients |-> 0]
    /\ lastWrite = NULL

InitStore ==
    /\ store = [i \in RowIds |-> NULL]
    /\ actor = NULL
    /\ returned = {}

InitSettings ==
    /\ work_hours = DefaultHours
    /\ loading = FALSE

InitWs ==
    /\ wsTask = NULL
    /\ task_history = <<>>
    /\ wsOpen = FALSE
    /\ lastUpdate = NULL

\* The Profile of a new user at midnight: work hours 09:00-18:00 in minutes
\* of the day, check_in_frequency 3.
InitSched ==
    /\ schedIn = [start |-> DefaultHours.start * 60, end |-> DefaultHours.end * 60,
                  frequency |-> 3, at |-> 0]
    /\ schedOut = NULL

InitPage ==
    /\ saving = FALSE
    /\ isWorking = FALSE
    /\ sessionStart = NULL
    /\ sessionsStarted = 0
    /\ endPending = <<>>
    /\ work_sessions = <<>>
    /\ supported = TRUE
    /\ browserPermission = "default"
    /\ isSupported = FALSE
    /\ permission = "default"
    /\ timers = <<>>
    /\ notifications = <<>>

InitOther ==
    /\ oldProfiles = NewProfile
    /\ InitPage

Init ==
    /\ InitRec /\ InitStreak /\ InitStore /\ InitSettings /\ InitWs /\ InitSched
    /\ InitOther

\* ----------------------------------------------------------------- actions
\* Wall-clock time passes.
Tick ==
    /\ \E h \in TickSteps : now + h <= MaxNow /\ now' = now + h
    /\ UNCHANGED <<tz, profiles, check_ins, profile, pc, insertError,
                   updateError, payload, fetchPending, toasts, lastWrite>>
    /\ UNCHANGED streakFrame

\* Dashboard.handleCheckInSubmit, lines 475-484: the check_ins insert.
CheckInInsert(c) ==
    /\ pc[c] = "idle"
    /\ Len(check_ins) < MaxCheckIns
    /\ \E ok \in BOOLEAN :
        /\ check_ins' = IF ok THEN Append(check_ins, [created_at |-> now, task_id |-> NULL])
                        ELSE check_ins
        /\ insertError' = [insertError EXCEPT ![c] = ~ok]
    /\ pc' = [pc EXCEPT ![c] = "inserted"]
    /\ updateError' = [updateError EXCEPT ![c] = FALSE]
    /\ UNCHANGED <<now, tz, profiles, profile, payload, fetchPending, toasts, lastWrite>>
    /\ UNCHANGED streakFrame

\* lines 486-507: after the insert has returned, the rule is evaluated on the
\* Profile copy in React state and the update request is sent.
StreakRule(c) ==
    /\ pc[c] = "inserted"
    /\ IF ~insertError[c] /\ profile[c] # NULL /\ RuleFires(profile[c], now, tz)
       THEN /\ payload' = [payload EXCEPT ![c] =
                             [body |-> UpdateBody(profile[c], now, tz),
                              at |-> now, from |-> profile[c]]]
            /\ pc' = [pc EXCEPT ![c] = "updating"]
       ELSE /\ pc' = [pc EXCEPT ![c] = "idle"]
            /\ UNCHANGED payload
    /\ insertError' = [insertError EXCEPT ![c] = FALSE]
    /\ UNCHANGED <<now, tz, profiles, check_ins, profile,
                   updateError, fetchPending, toasts, lastWrite>>
    /\ UNCHANGED streakFrame

\* lines 503-509: the store answers the update; its result is not inspected,
\* and fetchProfile() is started without being awaited.
ProfileUpdate(c) ==
    /\ pc[c] = "updating"
    /\ \E ok \in BOOLEAN :
        /\ profiles' = IF ok THEN ApplyUpdate(profiles, payload[c].body) ELSE profiles
        /\ lastWrite' = IF ok THEN [at |-> payload[c].at, from |-> payload[c].from]
                        ELSE lastWrite
        /\ check_ins' = CheckInsAfterUpdate(check_ins, ok)
        /\ updateError' = [updateError EXCEPT ![c] = ~ok]
    /\ payload' = [payload EXCEPT ![c] = NULL]
    /\ fetchPending' = [fetchPending EXCEPT ![c] = TRUE]
    /\ pc' = [pc EXCEPT ![c] = "idle"]
    /\ UNCHANGED <<now, tz, profile, insertError, toasts>>
    /\ UNCHANGED streakFrame

\* fetchProfile, lines 426-434: the select returns and setProfile(data) runs.
FetchProfile(c) ==
    /\ fetchPending[c]
    /\ profile' = [profile EXCEPT ![c] = profiles]
    /\ fetchPending' = [fetchPending EXCEPT ![c] = FALSE]
    /\ UNCHANGED <<now, tz, profiles, check_ins, pc, insertError, updateError,
                   payload, toasts, lastWrite>>
    /\ UNCHANGED streakFrame

\* TaskWorkspace.handleCheckInSubmit: inserts the row and reloads the list;
\* the Profile is not touched.
QuickCheckIn(c) ==
    /\ pc[c] = "idle"
    /\ Len(check_ins) < MaxCheckIns
    /\ check_ins' = Append(check_ins, [created_at |-> now, task_id |-> Task])
    /\ UNCHANGED <<now, tz, profiles, profile, pc, insertError, updateError,
                   payload, fetchPending, toasts, lastWrite>>
    /\ UNCHANGED streakFrame

Next ==
    \/ Tick
    \/ \E c \in Clients : CheckInInsert(c)
    \/ \E c \in Clients : StreakRule(c)
    \/ \E c \in Clients : ProfileUpdate(c)
    \/ \E c \in Clients : FetchProfile(c)
    \/ \E c \in Clients : QuickCheckIn(c)

Spec == Init /\ [][Next]_vars

\* ------------------------------------------- task-recommendations function
\* Bodies the function can answer with.  The arguments of the AI tool call
\* are passed through unchanged (lines 705-710), so a 200 body is whatever
\* JSON the model produced: the shape the panel reads (recommendedTasks,
\* insights, warnings), the shape of the tool schema of lines 640-668
\* (recommendations, general_insights), or JSON null.
Rec(t) == [taskId |-> t, suggestedDate |-> Date(EpochDay + 1)]
RecLists == {<<>>, <<Rec("t1")>>, <<Rec("t1"), Rec("t2")>>}
Canonical(l) == [kind |-> "canonical", recommendedTasks |-> l]
Legacy == [kind |-> "legacy"]
ErrorBody == [kind |-> "error"]
Bodies == {Canonical(l) : l \in RecLists} \cup {Legacy, NULL}

\* What the AI gateway answers: a status, whether choices[0] carries a tool
\* call, and the arguments of that call.
Upstreams ==
    [status : {200, 402, 429, 500}, toolCall : BOOLEAN, args : Bodies]

Reply(st, b) == [status |-> st, body |-> b]

CallsAIWithKey(key, user, db) == key

\* lines 505-624: the fetch of line 624 is reached when LOVABLE_API_KEY is
\* set, getUser() has given a user, and the selects of the user's tasks,
\* profile, check-ins and sessions have not failed.
CallsAI(key, user, db) == key /\ user /\ db

\* serve, lines 499-720
serve(key, user, db, up) ==
    IF ~key THEN Reply(500, ErrorBody)
    ELSE IF ~user THEN Reply(500, ErrorBody)
    ELSE IF ~db THEN Reply(500, ErrorBody)
    ELSE IF up.status # 200
         THEN IF up.status = 429 THEN Reply(429, ErrorBody)
              ELSE IF up.status = 402 THEN Reply(402, ErrorBody)
              ELSE Reply(500, ErrorBody)
    ELSE IF ~up.toolCall THEN Reply(500, ErrorBody)
    ELSE Reply(200, up.args)

\* Every way a request of the panel can be answered: a run of serve, or the
\* 401 with which the platform rejects an expired token before serve runs.
Runs ==
    {[served |-> TRUE, key |-> k, user |-> u, called |-> CallsAI(k, u, d),
      reply |-> serve(k, u, d, up)] :
        k \in BOOLEAN, u \in BOOLEAN, d \in BOOLEAN, up \in Upstreams}
      \cup {[served |-> FALSE, reply |-> Reply(401, ErrorBody)]}

Responses == {run.reply : run \in Runs}

Ok2xx(r) == r.status >= 200 /\ r.status < 300

\* ------------------------------------------------- AIRecommendations panel
\* line 407: recommendations?.recommendedTasks.filter(...) throws when
\* recommendations is an object without a recommendedTasks array.
RenderThrows(r) == r # NULL /\ r.kind # "canonical"

activeTasksUnfiltered(r, done) ==
    IF r = NULL THEN <<>> ELSE r.recommendedTasks

\* lines 407-409
activeTasks(r, done) ==
    IF r = NULL THEN <<>>
    ELSE SelectSeq(r.recommendedTasks, LAMBDA task : task.taskId \notin done)

\* lines 411-433 and 512: the recommended tasks the panel displays
ShownTasks ==
    IF crashed \/ isLoading \/ recommendations = NULL THEN <<>>
    ELSE activeTasks(recommendations, scheduledTasks)

Mounted == ~crashed /\ ~signedOut

\* getRecommendations, lines 302-307: the request is sent.
StartRequest ==
    /\ inflight < MaxInflight
    /\ isLoading' = TRUE
    /\ inflight' = inflight + 1

\* lines 281-300: the auth session is seen, the effect calls getRecommendations.
SessionEstablished ==
    /\ Mounted
    /\ ~hasSession
    /\ hasSession' = TRUE
    /\ StartRequest
    /\ UNCHANGED <<recommendations, scheduledTasks, crashed, lastResponse,
                   signedOut, recToasts, tasks, lastServe, lastToast>>
    /\ UNCHANGED recFrame

\* lines 289-291: an auth state change without a user.
SessionLost ==
    /\ Mounted
    /\ hasSession
    /\ hasSession' = FALSE
    /\ UNCHANGED <<isLoading, recommendations, scheduledTasks, crashed, inflight,
                   lastResponse, signedOut, recToasts, tasks, lastServe, lastToast>>
    /\ UNCHANGED recFrame

\* lines 450-458: the Refresh button of the loaded panel.
Refresh ==
    /\ Mounted
    /\ ~isLoading
    /\ recommendations # NULL
    /\ StartRequest
    /\ UNCHANGED <<recommendations, scheduledTasks, crashed, lastResponse,
                   signedOut, recToasts, hasSession, tasks, lastServe, lastToast>>
    /\ UNCHANGED recFrame

SessionExpiredOnForbidden(r) == r.status = 403

\* lines 310-311: status === 401
SessionExpired(r) == r.status = 401

\* FunctionsHttpError, the error of invoke() for every non-2xx answer, has
\* one message; the body of the answer is not read (line 329).
ErrorMessage(r) == "Edge Function returned a non-2xx status code"

\* lines 312-316 and 327-331: the toast for an answer that is not 2xx
FailureToast(r) ==
    IF SessionExpired(r)
    THEN [title |-> "Session expired",
          description |-> "Please sign in again to get recommendations."]
    ELSE [title |-> "Error", description |-> ErrorMessage(r)]

\* getRecommendations, lines 309-334: invoke() has returned {data, error}; a
\* non-2xx answer is the error, a 2xx answer is the data.  The panel renders
\* again with the new state (line 407).
HandleResponse ==
    /\ Mounted
    /\ inflight > 0
    /\ \E run \in Runs :
        LET r == run.reply IN
        /\ lastServe' = IF run.served THEN run ELSE lastServe
        /\ lastResponse' = r
        /\ IF ~Ok2xx(r)
           THEN /\ UNCHANGED recommendations
                /\ lastToast' = FailureToast(r)
                /\ recToasts' = recToasts \cup {FailureToast(r).title}
                /\ signedOut' = (signedOut \/ SessionExpired(r))
           ELSE /\ recommendations' = r.body
                /\ UNCHANGED <<recToasts, signedOut, lastToast>>
    /\ isLoading' = FALSE
    /\ inflight' = inflight - 1
    /\ crashed' = RenderThrows(recommendations')
    /\ UNCHANGED <<scheduledTasks, hasSession, tasks>>
    /\ UNCHANGED recFrame

ScheduleUpdateAndStart(row, task) ==
    [row EXCEPT !.due_date = task.suggestedDate, !.status = "in_progress"]

\* lines 341-344: update({ due_date: task.suggestedDate }).eq('id', task.taskId)
ScheduleUpdate(row, task) == [row EXCEPT !.due_date = task.suggestedDate]

\* scheduleTask, lines 338-363, on a task the panel displays.
scheduleTask ==
    /\ Mounted
    /\ \E i \in 1..Len(ShownTasks), ok \in BOOLEAN :
        LET task == ShownTasks[i] IN
        IF ok
        THEN /\ tasks' = [tasks EXCEPT ![task.taskId] =
                                ScheduleUpdate(tasks[task.taskId], task)]
             /\ scheduledTasks' = scheduledTasks \cup {task.taskId}
             /\ recToasts' = recToasts \cup {"Task Scheduled"}
             /\ lastToast' = [title |-> "Task Scheduled",
                              description |-> task.taskId]
        ELSE /\ recToasts' = recToasts \cup {"Error"}
             /\ lastToast' = [title |-> "Error",
                              description |-> "Failed to schedule task"]
             /\ UNCHANGED <<tasks, scheduledTasks>>
    /\ UNCHANGED <<isLoading, recommendations, crashed, inflight, lastResponse,
                   signedOut, hasSession, lastServe>>
    /\ UNCHANGED recFrame

\* dismissTask, lines 365-367
dismissTask ==
    /\ Mounted
    /\ \E i \in 1..Len(ShownTasks) :
        scheduledTasks' = scheduledTasks \cup {ShownTasks[i].taskId}
    /\ UNCHANGED <<isLoading, recommendations, crashed, inflight, lastResponse,
                   signedOut, recToasts, hasSession, tasks, lastServe, lastToast>>
    /\ UNCHANGED recFrame

NextRec ==
    \/ SessionEstablished
    \/ SessionLost
    \/ Refresh
    \/ HandleResponse
    \/ scheduleTask
    \/ dismissTask

SpecRec == Init /\ [][NextRec]_vars

\* ------------------------------------------------ the rule on drawn inputs
\* Specification SpecRule: the handler is run on Profiles drawn from a
\* bounded set (every streak pair with longest >= current, every stored date
\* near the explored days, no date, and the unparseable DATE 'infinity'), at
\* every explored instant and in every zone.
RuleDays == (EpochDay - 3) .. (EpochDay + MaxDays)
Instants == {EpochStart + 6 * i : i \in 0 .. 4 * MaxDays}
RuleProfiles ==
    {[current_streak |-> n, longest_streak |-> m, last_check_in_date |-> d] :
        n \in 0..MaxStreak, m \in 0..MaxStreak,
        d \in {NULL, InvalidDate} \cup {Date(x) : x \in RuleDays}}

InitRule ==
    /\ InitRec
    /\ InitStore
    /\ InitSettings
    /\ InitWs
    /\ InitSched
    /\ InitOther
    /\ now \in Instants
    /\ tz \in Offsets
    /\ profiles \in {p \in RuleProfiles : p.longest_streak >= p.current_streak}
    /\ check_ins = <<>>
    /\ profile = [c \in Clients |-> profiles]
    /\ pc = [c \in Clients |-> "idle"]
    /\ insertError = [c \in Clients |-> FALSE]
    /\ updateError = [c \in Clients |-> FALSE]
    /\ payload = [c \in Clients |-> NULL]
    /\ fetchPending = [c \in Clients |-> FALSE]
    /\ toasts = [c \in Clients |-> 0]
    /\ lastWrite = NULL

NextRule ==
    \/ \E c \in Clients : CheckInInsert(c)
    \/ \E c \in Clients : StreakRule(c)
    \/ \E c \in Clients : ProfileUpdate(c)
    \/ \E c \in Clients : FetchProfile(c)

SpecRule == InitRule /\ [][NextRule]_vars

\* Specification SpecStale: the same handler with a second device whose
\* Profile copy is older than the stored row.  Device d1 has checked in over
\* the past days and holds the stored row; device d2 has had the Dashboard
\* open since sign-up and still holds the initial Profile (fetchProfile runs
\* on mount and after the device's own check-ins only).
InitStale ==
    /\ InitRec
    /\ InitStore
    /\ InitSettings
    /\ InitWs
    /\ InitSched
    /\ InitOther
    /\ now \in Instants
    /\ tz \in Offsets
    /\ profiles \in {p \in RuleProfiles :
                       /\ p.current_streak >= 1
                       /\ p.longest_streak >= p.current_streak
                       /\ p.last_check_in_date.k = "date"
                       /\ p.last_check_in_date.d <= now \div 24}
    /\ check_ins = <<>>
    /\ profile = [c \in Clients |-> IF c = "d1" THEN profiles ELSE NewProfile]
    /\ pc = [c \in Clients |-> "idle"]
    /\ insertError = [c \in Clients |-> FALSE]
    /\ updateError = [c \in Clients |-> FALSE]
    /\ payload = [c \in Clients |-> NULL]
    /\ fetchPending = [c \in Clients |-> FALSE]
    /\ toasts = [c \in Clients |-> 0]
    /\ lastWrite = NULL

SpecStale == InitStale /\ [][NextRule]_vars

\* ------------------------------------------- the older Dashboard handler
\* Date.prototype.toDateString(): the local calendar day, "Invalid Date" for
\* an Invalid Date.
toDateString(x, off) ==
    IF x.k = "time" THEN Date(LocalDay(x.t, off)) ELSE InvalidDate

\* part_005 lines 124-127: lastCheckIn !== today, both as toDateString()
RuleFiresOld(p, t, off) ==
    LET lastCheckInOld ==
            IF p.last_check_in_date = NULL THEN NULL
            ELSE toDateString(ParseDate(p.last_check_in_date), off)
    IN  lastCheckInOld # toDateString(Time(t), off)

\* part_005 lines 123-135: the stored row after a check-in at instant t
\* handled by the older handler on a device whose copy p is the stored row.
HandledOld(p, t, off) ==
    IF RuleFiresOld(p, t, off)
    THEN ApplyUpdate(p,
             [current_streak |-> p.current_streak + 1,
              longest_streak |-> Max(p.longest_streak, p.current_streak + 1),
              last_check_in_date |-> toISOString(t)])
    ELSE p

\* The same for the current handler (Dashboard.tsx lines 486-507).
Handled(p, t, off) ==
    IF RuleFires(p, t, off) THEN ApplyUpdate(p, UpdateBody(p, t, off))
    ELSE p

\* One check-in date given to both handlers: each is applied to the row it
\* has produced so far.
CheckInBoth ==
    /\ profiles.current_streak < MaxStreak + MaxDays
    /\ profiles' = Handled(profiles, now, tz)
    /\ oldProfiles' = HandledOld(oldProfiles, now, tz)
    /\ UNCHANGED pageVars
    /\ UNCHANGED <<now, tz, check_ins, profile, pc, insertError, updateError,
                   payload, fetchPending, toasts, lastWrite>>
    /\ UNCHANGED <<recVars, storeVars, settingsVars, wsVars, schedVars>>

\* Specification SpecOld: both handlers started from the same drawn Profile
\* and given the same check-in dates.
InitOld ==
    /\ InitRec
    /\ InitStore
    /\ InitSettings
    /\ InitWs
    /\ InitSched
    /\ now = EpochStart
    /\ tz \in Offsets
    /\ profiles \in {p \in RuleProfiles :
                       /\ p.longest_streak >= p.current_streak
                       /\ p.last_check_in_date.k = "date" =>
                              p.last_check_in_date.d <= now \div 24}
    /\ oldProfiles = profiles
    /\ InitPage
    /\ check_ins = <<>>
    /\ profile = [c \in Clients |-> profiles]
    /\ pc = [c \in Clients |-> "idle"]
    /\ insertError = [c \in Clients |-> FALSE]
    /\ updateError = [c \in Clients |-> FALSE]
    /\ payload = [c \in Clients |-> NULL]
    /\ fetchPending = [c \in Clients |-> FALSE]
    /\ toasts = [c \in Clients |-> 0]
    /\ lastWrite = NULL

NextOld ==
    \/ Tick
    \/ CheckInBoth

SpecOld == InitOld /\ [][NextOld]_vars

\* ------------------------------------------------------------ Settings page
\* Values of the two time inputs of the form.
HourForms == {[start |-> 8, end |-> 16], [start |-> 10, end |-> 19]}

ApplySettingsResettingStreak(p, w, form) ==
    [profiles |-> NewProfile, work_hours |-> form]

\* lines 212-218: update({work_hours_start, work_hours_end}).eq("id", user.id)
\* applied to the row whose streak columns are p and whose work hours are w.
ApplySettings(p, w, form) == [profiles |-> p, work_hours |-> form]

\* Settings.handleSave, lines 207-226, behind the Save button, which is
\* disabled while loading (line 292).  Without a user the handler returns
\* before the update and before setLoading(false).
handleSave ==
    /\ ~loading
    /\ \E user \in BOOLEAN, ok \in BOOLEAN, form \in HourForms :
          IF ~user
          THEN /\ loading' = TRUE
               /\ UNCHANGED <<profiles, work_hours>>
          ELSE /\ loading' = FALSE
               /\ IF ok
                  THEN /\ profiles' = ApplySettings(profiles, work_hours, form).profiles
                       /\ work_hours' = ApplySettings(profiles, work_hours, form).work_hours
                  ELSE UNCHANGED <<profiles, work_hours>>
    /\ UNCHANGED <<now, tz, check_ins, profile, pc, insertError, updateError,
                   payload, fetchPending, toasts, lastWrite>>
    /\ UNCHANGED settingsFrame

NextSettings ==
    \/ \E c \in Clients : CheckInInsert(c)
    \/ \E c \in Clients : StreakRule(c)
    \/ \E c \in Clients : ProfileUpdate(c)
    \/ \E c \in Clients : FetchProfile(c)
    \/ handleSave

SpecSettings == Init /\ [][NextSettings]_vars

\* handleSave in the two steps between which the page is displayed.
\* Line 208, behind the Save button, which is disabled while loading
\* (line 292): setLoading(true), then the handler awaits getUser().
handleSaveCall ==
    /\ ~loading
    /\ ~saving
    /\ loading' = TRUE
    /\ saving' = TRUE
    /\ UNCHANGED <<work_hours, oldProfiles, streakVars, sessionVars, notifyVars>>
    /\ UNCHANGED <<recVars, storeVars, wsVars, schedVars>>

\* Lines 209-225, when the awaited calls have settled: without a user the
\* handler returns at line 210; otherwise the update, a toast for either
\* outcome, and setLoading(false).
handleSaveReturn ==
    /\ saving
    /\ saving' = FALSE
    /\ \E user \in BOOLEAN, ok \in BOOLEAN, form \in HourForms :
          IF ~user
          THEN UNCHANGED <<loading, profiles, work_hours>>
          ELSE /\ loading' = FALSE
               /\ IF ok
                  THEN /\ profiles' = ApplySettings(profiles, work_hours, form).profiles
                       /\ work_hours' = ApplySettings(profiles, work_hours, form).work_hours
                  ELSE UNCHANGED <<profiles, work_hours>>
    /\ UNCHANGED <<now, tz, check_ins, profile, pc, insertError, updateError,
                   payload, fetchPending, toasts, lastWrite, oldProfiles>>
    /\ UNCHANGED <<recVars, storeVars, wsVars, schedVars, sessionVars,
                   notifyVars>>

NextSave ==
    \/ \E c \in Clients : CheckInInsert(c)
    \/ \E c \in Clients : StreakRule(c)
    \/ \E c \in Clients : ProfileUpdate(c)
    \/ \E c \in Clients : FetchProfile(c)
    \/ handleSaveCall
    \/ handleSaveReturn

\* The awaited getUser() and update settle, and the event loop then runs the
\* rest of the handler: handleSaveReturn is taken once it is enabled.
SpecSave == Init /\ [][NextSave]_vars /\ WF_vars(handleSaveReturn)

\* ------------------------------------------------------ TaskWorkspace page
\* Values the user enters.
EditedTitles == {"", "b"}
EditedTexts == {"d"}
Priorities == {"high"}
Progresses == {50, 100}

\* value?.toString() || null of logTaskChange, lines 204-205
Text(v) == IF v = "" THEN NullText ELSE v
ProgressText(n) ==
    CASE n = 0 -> "0" [] n = 50 -> "50" [] n = 100 -> "100"

\* A row with the columns of body replaced: update(body), and the spread
\* { ...prev, field: value } of setTask.
Merge(row, body) ==
    [f \in DOMAIN row |-> IF f \in DOMAIN body THEN body[f] ELSE row[f]]

LocalAfterOptimistic(local, body, ok) == Merge(local, body)

\* lines 286-292: setTask runs only when the update has returned no error.
LocalAfter(local, body, ok) == IF ok THEN Merge(local, body) ELSE local

\* logTaskChange, lines 194-210: the row inserted into task_history
HistoryEntry(field, old, new) ==
    [field_changed |-> field, old_value |-> old, new_value |-> new]

\* loadTask, lines 130-149, when the page is opened.
loadTask ==
    /\ ~wsOpen
    /\ \E ok \in BOOLEAN :
          IF ok THEN wsTask' = tasks[taskId] /\ wsOpen' = TRUE
          ELSE UNCHANGED <<wsTask, wsOpen>>
    /\ lastUpdate' = NULL
    /\ UNCHANGED <<tasks, task_history>>
    /\ UNCHANGED wsFrame

\* The body shared by the handlers of lines 277-391: the update of the task
\* row; on error a toast and return; otherwise logTaskChange (which returns
\* without inserting when getUser() gives no user, and does not inspect the
\* result of its insert), then setTask, and for completeTask navigate("/").
WorkspaceUpdate(body, entry, setsTask, leaves) ==
    /\ wsOpen
    /\ wsTask # NULL
    /\ Len(task_history) < MaxHistory
    /\ \E ok \in BOOLEAN, logged \in BOOLEAN :
          /\ tasks' = [tasks EXCEPT ![taskId] = IF ok THEN Merge(@, body) ELSE @]
          /\ task_history' = IF ok /\ logged THEN Append(task_history, entry)
                             ELSE task_history
          /\ wsTask' = IF setsTask THEN LocalAfter(wsTask, body, ok) ELSE wsTask
          /\ wsOpen' = ~(ok /\ leaves)
          /\ lastUpdate' = [field |-> entry.field_changed, error |-> ~ok]
    /\ UNCHANGED wsFrame

\* lines 277-294
updateProgress ==
    \E newProgress \in Progresses :
        WorkspaceUpdate([progress |-> newProgress],
            HistoryEntry("progress", ProgressText(wsTask.progress),
                         ProgressText(newProgress)),
            TRUE, FALSE)

\* lines 296-313
saveTitle ==
    \E editedTitle \in EditedTitles :
        /\ editedTitle # ""
        /\ WorkspaceUpdate([title |-> editedTitle],
               HistoryEntry("title", Text(wsTask.title), Text(editedTitle)),
               TRUE, FALSE)

\* lines 315-332
saveDescription ==
    \E editedDescription \in EditedTexts :
        WorkspaceUpdate([description |-> editedDescription],
            HistoryEntry("description", Text(wsTask.description),
                         Text(editedDescription)),
            TRUE, FALSE)

\* lines 334-351
saveNotes ==
    \E editedNotes \in EditedTexts :
        WorkspaceUpdate([notes |-> editedNotes],
            HistoryEntry("notes", Text(wsTask.notes), Text(editedNotes)),
            TRUE, FALSE)

\* lines 353-369
updatePriority ==
    \E newPriority \in Priorities :
        WorkspaceUpdate([priority |-> newPriority],
            HistoryEntry("priority", Text(wsTask.priority), Text(newPriority)),
            TRUE, FALSE)

\* lines 371-391
completeTask ==
    WorkspaceUpdate(
        [status |-> "completed", progress |-> 100, completed_at |-> Time(now)],
        HistoryEntry("status", Text(wsTask.status), "completed"),
        FALSE, TRUE)

NextWs ==
    \/ loadTask
    \/ updateProgress
    \/ saveTitle
    \/ saveDescription
    \/ saveNotes
    \/ updatePriority
    \/ completeTask

SpecWs == Init /\ [][NextWs]_vars

\* Dashboard.handleToggleComplete, Dashboard.tsx lines 458-473, on the card of
\* the task: currentStatus is the status the Dashboard's list shows, which
\* fetchTasks refreshed after the last operation.  progress: undefined is
\* dropped from the JSON body, so reopening a task leaves progress alone.
handleToggleComplete ==
    /\ ~wsOpen
    /\ LET currentStatus == tasks[taskId].status
           newStatus == IF currentStatus = "completed" THEN "in_progress"
                        ELSE "completed"
           body == IF newStatus = "completed"
                   THEN [status |-> newStatus, completed_at |-> Time(now),
                         progress |-> 100]
                   ELSE [status |-> newStatus, completed_at |-> NULL]
       IN  \E ok \in BOOLEAN :
              tasks' = [tasks EXCEPT ![taskId] = IF ok THEN Merge(@, body) ELSE @]
    /\ UNCHANGED wsVars
    /\ UNCHANGED wsFrame

\* The Back button of TaskWorkspace, part_003 line 441: navigate("/")
leaveWorkspace ==
    /\ wsOpen
    /\ wsOpen' = FALSE
    /\ UNCHANGED <<tasks, wsTask, task_history, lastUpdate>>
    /\ UNCHANGED wsFrame

\* The operations that write status, progress and completed_at of a task.
NextTask ==
    \/ loadTask
    \/ leaveWorkspace
    \/ updateProgress
    \/ completeTask
    \/ handleToggleComplete

SpecTask == Init /\ [][NextTask]_vars

\* ------------------------------------------- work sessions of TaskWorkspace
\* Everything but the state of the pages and hooks that follow.
pageFrame == <<streakVars, recVars, storeVars, settingsVars, wsVars,
               schedVars, oldProfiles>>

\* The element at position i removed from sequence q.
Without(q, i) == SubSeq(q, 1, i - 1) \o SubSeq(q, i + 1, Len(q))

\* startWorkSession, part_002 lines 159-163, behind the Start button that is
\* displayed while !isWorking (line 642).
startWorkSession ==
    /\ ~isWorking
    /\ sessionsStarted < MaxSessions
    /\ isWorking' = TRUE
    /\ sessionStart' = Time(now)
    /\ sessionsStarted' = sessionsStarted + 1
    /\ UNCHANGED <<endPending, work_sessions>>
    /\ UNCHANGED <<pageFrame, saving, notifyVars>>

\* endWorkSession, part_002 lines 165-170, behind the End Session button that
\* is displayed while isWorking (line 656): the guard on sessionStart, the
\* duration in minutes, then the handler awaits getUser().
endWorkSessionCall ==
    /\ isWorking
    /\ sessionStart # NULL
    /\ Len(endPending) < MaxEnds
    /\ endPending' = Append(endPending,
                            [of |-> sessionsStarted,
                             duration |-> (now - sessionStart.t) * 60])
    /\ UNCHANGED <<isWorking, sessionStart, sessionsStarted, work_sessions>>
    /\ UNCHANGED <<pageFrame, saving, notifyVars>>

\* endWorkSession, part_002 lines 170-181, for one of the pending calls:
\* without a user the handler returns; otherwise the insert, whose result is
\* not inspected, then setIsWorking(false) and setSessionStart(null).
endWorkSessionReturn ==
    /\ \E i \in 1..Len(endPending), user \in BOOLEAN, ok \in BOOLEAN :
          /\ endPending' = Without(endPending, i)
          /\ IF ~user
             THEN UNCHANGED <<isWorking, sessionStart, work_sessions>>
             ELSE /\ work_sessions' =
                       IF ok
                       THEN Append(work_sessions,
                                [task_id |-> taskId,
                                 time_spent |-> endPending[i].duration,
                                 of |-> endPending[i].of])
                       ELSE work_sessions
                  /\ isWorking' = FALSE
                  /\ sessionStart' = NULL
    /\ UNCHANGED sessionsStarted
    /\ UNCHANGED <<pageFrame, saving, notifyVars>>

NextSession ==
    \/ Tick
    \/ startWorkSession
    \/ endWorkSessionCall
    \/ endWorkSessionReturn

SpecSession == Init /\ [][NextSession]_vars

\* ------------------------------------------------- useNotifications hook
\* The browser displays a notification only while its own permission for the
\* site is "granted": otherwise registration.showNotification() rejects and
\* new Notification() displays nothing.  The hook keeps a copy of that
\* permission in its state, and a callback sees the copy of the render that
\* created it (useCallback, line 418).
PermittedUnlessDenied(sup, perm) == sup /\ perm # "denied"

\* line 383: !(!isSupported || permission !== "granted")
Permitted(sup, perm) == sup /\ perm = "granted"

\* sendNotification, lines 382-418, called with the state sup, perm it has
\* captured, from timeout id (0: called directly).
Send(id, sup, perm) ==
    IF Permitted(sup, perm)
    THEN \E displayed \in IF supported /\ browserPermission = "granted"
                          THEN BOOLEAN ELSE {FALSE} :
            notifications' =
                IF displayed
                THEN Append(notifications,
                            [timer |-> id, isSupported |-> sup,
                             permission |-> perm, actual |-> browserPermission])
                ELSE notifications
    ELSE UNCHANGED notifications

\* The effect of lines 231-271, when the hook is mounted.
mountEffect ==
    /\ ~isSupported
    /\ isSupported' = supported
    /\ permission' = IF supported THEN browserPermission ELSE "unsupported"
    /\ UNCHANGED <<supported, browserPermission, timers, notifications>>
    /\ UNCHANGED <<pageFrame, saving, sessionVars>>

\* requestPermission, lines 273-298: the browser asks the user when its
\* permission is "default", and answers with its permission otherwise.
requestPermission ==
    /\ isSupported
    /\ \E result \in IF browserPermission = "default"
                      THEN {"default", "granted", "denied"}
                      ELSE {browserPermission} :
          /\ browserPermission' = result
          /\ permission' = result
    /\ UNCHANGED <<supported, isSupported, timers, notifications>>
    /\ UNCHANGED <<pageFrame, saving, sessionVars>>

\* The user changes the permission of the site in the settings of the
\* browser; the hook reads Notification.permission only at lines 237, 280.
browserSettings ==
    /\ supported
    /\ \E p \in {"default", "granted", "denied"} :
          /\ p # browserPermission
          /\ browserPermission' = p
    /\ UNCHANGED <<supported, isSupported, permission, timers, notifications>>
    /\ UNCHANGED <<pageFrame, saving, sessionVars>>

\* sendNotification called by a page (part_001 line 236)
sendNotification ==
    /\ Len(notifications) < MaxNotifications
    /\ Send(0, isSupported, permission)
    /\ UNCHANGED <<supported, browserPermission, isSupported, permission, timers>>
    /\ UNCHANGED <<pageFrame, saving, sessionVars>>

\* scheduleNotification, lines 420-426: the id of the timeout is returned.
scheduleNotification ==
    /\ Len(timers) < MaxTimers
    /\ timers' = Append(timers, [isSupported |-> isSupported,
                                 permission |-> permission,
                                 state |-> "pending"])
    /\ UNCHANGED <<supported, browserPermission, isSupported, permission,
                   notifications>>
    /\ UNCHANGED <<pageFrame, saving, sessionVars>>

\* lines 421-423: the delay of a timeout has elapsed.
timerFires ==
    /\ Len(notifications) < MaxNotifications
    /\ \E id \in 1..Len(timers) :
          /\ timers[id].state = "pending"
          /\ timers' = [timers EXCEPT ![id].state = "fired"]
          /\ Send(id, timers[id].isSupported, timers[id].permission)
    /\ UNCHANGED <<supported, browserPermission, isSupported, permission>>
    /\ UNCHANGED <<pageFrame, saving, sessionVars>>

\* cancelScheduledNotification, lines 428-430: clearTimeout does nothing for
\* a timeout that has fired.
cancelScheduledNotification ==
    /\ \E id \in 1..Len(timers) :
          timers' = [timers EXCEPT ![id].state =
                        IF @ = "pending" THEN "cleared" ELSE @]
    /\ UNCHANGED <<supported, browserPermission, isSupported, permission,
                   notifications>>
    /\ UNCHANGED <<pageFrame, saving, sessionVars>>

\* A browser with or without support, whatever the site's permission is.
InitNotify ==
    /\ InitRec /\ InitStreak /\ InitStore /\ InitSettings /\ InitWs /\ InitSched
    /\ oldProfiles = NewProfile
    /\ saving = FALSE
    /\ isWorking = FALSE
    /\ sessionStart = NULL
    /\ sessionsStarted = 0
    /\ endPending = <<>>
    /\ work_sessions = <<>>
    /\ supported \in BOOLEAN
    /\ browserPermission \in {"default", "granted", "denied"}
    /\ isSupported = FALSE
    /\ permission = "default"
    /\ timers = <<>>
    /\ notifications = <<>>

NextNotify ==
    \/ mountEffect
    \/ requestPermission
    \/ browserSettings
    \/ sendNotification
    \/ scheduleNotification
    \/ timerFires
    \/ cancelScheduledNotification

SpecNotify == InitNotify /\ [][NextNotify]_vars

\* ------------------------------------------------- next-check-in scheduler
\* useCheckInScheduler(profile, onCheckIn), called at Dashboard.tsx 371-381.
\* Times of day are minutes since local midnight.
MinutesPerDay == 24 * 60
SchedSteps == {30}                 \* the time of day is observed every 30 min
Starts == {480, 540}               \* work_hours_start 08:00, 09:00
Ends == {540, 1020, 1080}          \* work_hours_end 09:00, 17:00, 18:00
Frequencies == 1..MaxFrequency     \* check_in_frequency

\* now is inside [start, end)
InWorkHours(in) == in.start <= in.at /\ in.at < in.end

\* The k-th boundary of the window divided evenly into `frequency` parts is
\* start + k * (end - start) / frequency; Scaled(in, k) is that time
\* multiplied by frequency, which keeps it an integer.
Scaled(in, k) == in.start * in.frequency + k * (in.end - in.start)

NextBoundaryAtOrAfter(in) ==
    CHOOSE k \in 0..in.frequency :
        /\ Scaled(in, k) >= in.at * in.frequency
        /\ \A j \in 0..in.frequency :
              Scaled(in, j) >= in.at * in.frequency => k <= j

\* The first boundary strictly after now.
NextBoundary(in) ==
    CHOOSE k \in 0..in.frequency :
        /\ Scaled(in, k) > in.at * in.frequency
        /\ \A j \in 0..in.frequency :
              Scaled(in, j) > in.at * in.frequency => k <= j

\* What the scheduler reports: the work-hours flag, the text, and the
\* suggested time as a day (0 today, 1 tomorrow) and a time of day scaled
\* by `scale`.
nextCheckIn(in) ==
    IF InWorkHours(in)
    THEN [isWorkHours |-> TRUE, text |-> "next check-in", day |-> 0,
          time |-> Scaled(in, NextBoundary(in)), scale |-> in.frequency]
    ELSE [isWorkHours |-> FALSE, text |-> "outside work hours", day |-> 1,
          time |-> in.start, scale |-> 1]

\* The hook evaluates the schedule for the current inputs.
Schedule ==
    /\ schedOut = NULL
    /\ schedOut' = nextCheckIn(schedIn)
    /\ UNCHANGED schedIn
    /\ UNCHANGED schedFrame

\* The time of day advances; the report of the earlier time is dropped.
SchedTick ==
    /\ \E h \in SchedSteps :
          /\ schedIn.at + h < MinutesPerDay
          /\ schedIn' = [schedIn EXCEPT !.at = @ + h]
    /\ schedOut' = NULL
    /\ UNCHANGED schedFrame

\* Specification SpecSched: the scheduler run on every drawn window and
\* frequency, at every half hour of the day.
InitSchedInputs ==
    /\ InitRec
    /\ InitStreak
    /\ InitStore
    /\ InitSettings
    /\ InitWs
    /\ InitOther
    /\ schedIn \in [start : Starts, end : Ends, frequency : Frequencies, at : {0}]
    /\ schedOut = NULL

NextSched ==
    \/ Schedule
    \/ SchedTick

SpecSched == InitSchedInputs /\ [][NextSched]_vars

\* ---------------------------------------------- the store and its policies
Tables ==
    {"profiles", "tasks", "check_ins", "work_sessions", "task_history",
     "subtasks", "push_subscriptions"}

\* CREATE POLICY ... FOR cmd: the commands for which a table has a policy.
\* Row level security is enabled on every table, so a command without a
\* policy is denied.
Policies(tbl) ==
    CASE tbl = "profiles" -> {"SELECT", "UPDATE", "INSERT"}
      [] tbl = "tasks" -> {"SELECT", "INSERT", "UPDATE", "DELETE"}
      [] tbl = "check_ins" -> {"SELECT", "INSERT"}
      [] tbl = "work_sessions" -> {"SELECT", "INSERT", "UPDATE", "DELETE"}
      [] tbl = "task_history" -> {"SELECT", "INSERT"}
      [] tbl = "subtasks" -> {"SELECT", "INSERT", "UPDATE", "DELETE"}
      [] tbl = "push_subscriptions" -> {"SELECT", "INSERT", "UPDATE", "DELETE"}

\* The expression of every policy: auth.uid() = user_id (auth.uid() = id on
\* profiles).
OwnRow(u, row) == row.owner = u

\* task_id ... REFERENCES public.tasks(id) ON DELETE <action>
OnTaskDelete(tbl) ==
    CASE tbl = "check_ins" -> "SET NULL"
      [] tbl \in {"work_sessions", "task_history", "subtasks"} -> "CASCADE"
      [] OTHER -> "NONE"

\* task_id is NOT NULL on task_history and subtasks.
TaskIdRequired(tbl) == tbl \in {"task_history", "subtasks"}

\* Rows a request may carry: a table, the owner column, the task_id column
\* (NoTask where the table has none) and the rest of the row as a version v.
Rows ==
    [tbl : Tables, owner : Users, task_id : RowIds \cup {NoTask}, v : {0, 1}]

IsTask(i) == store[i] # NULL /\ store[i].tbl = "tasks"

\* Constraints of the table definitions: the foreign key on task_id, which
\* is checked against public.tasks without regard to row level security,
\* NOT NULL, and the primary key of profiles.
ConstraintsHold(row) ==
    /\ IF OnTaskDelete(row.tbl) = "NONE" THEN row.task_id = NoTask
       ELSE IF row.task_id = NoTask THEN ~TaskIdRequired(row.tbl)
       ELSE IsTask(row.task_id)
    /\ row.tbl = "profiles" =>
          \A j \in RowIds :
              store[j] # NULL /\ store[j].tbl = "profiles" => store[j].owner # row.owner

\* USING of the SELECT policy
Visible(u, i) ==
    /\ store[i] # NULL
    /\ "SELECT" \in Policies(store[i].tbl)
    /\ OwnRow(u, store[i])

\* supabase.from(tbl).select(): the rows the SELECT policy lets through.
Select(u) ==
    /\ \E tbl \in Tables :
          returned' = {i \in RowIds : Visible(u, i) /\ store[i].tbl = tbl}
    /\ actor' = u
    /\ UNCHANGED store
    /\ UNCHANGED storeFrame

\* supabase.from(tbl).insert(row): WITH CHECK of the INSERT policy on the new
\* row; the request is free to name any owner and any task.
Insert(u) ==
    /\ \E row \in Rows, i \in RowIds :
          /\ store[i] = NULL
          /\ row.v = 0
          /\ IF /\ "INSERT" \in Policies(row.tbl)
                /\ OwnRow(u, row)
                /\ ConstraintsHold(row)
             THEN store' = [store EXCEPT ![i] = row]
             ELSE UNCHANGED store
    /\ actor' = u
    /\ returned' = {}
    /\ UNCHANGED storeFrame

\* supabase.from(tbl).update(body).eq('id', i): USING of the UPDATE policy
\* selects the row; the policies have no WITH CHECK, so USING is applied to
\* the new row as well.  The body may name a new owner.
Update(u) ==
    /\ \E i \in RowIds, o \in Users :
          /\ store[i] # NULL
          /\ LET new == [store[i] EXCEPT !.owner = o, !.v = 1] IN
             IF /\ "UPDATE" \in Policies(store[i].tbl)
                /\ Visible(u, i)
                /\ OwnRow(u, store[i])
                /\ OwnRow(u, new)
             THEN store' = [store EXCEPT ![i] = new]
             ELSE UNCHANGED store
    /\ actor' = u
    /\ returned' = {}
    /\ UNCHANGED storeFrame

\* The referential actions that follow the deletion of task i.
AfterTaskDelete(rows, i) ==
    [j \in RowIds |->
        IF j = i THEN NULL
        ELSE IF rows[j] = NULL \/ rows[j].task_id # i THEN rows[j]
        ELSE IF OnTaskDelete(rows[j].tbl) = "SET NULL"
             THEN [rows[j] EXCEPT !.task_id = NoTask]
        ELSE NULL]

\* supabase.from(tbl).delete().eq('id', i): USING of the DELETE policy; the
\* deletion of a task runs the referential actions of the rows that name it.
Delete(u) ==
    /\ \E i \in RowIds :
          /\ store[i] # NULL
          /\ IF /\ "DELETE" \in Policies(store[i].tbl)
                /\ Visible(u, i)
                /\ OwnRow(u, store[i])
             THEN store' = IF store[i].tbl = "tasks" THEN AfterTaskDelete(store, i)
                           ELSE [store EXCEPT ![i] = NULL]
             ELSE UNCHANGED store
    /\ actor' = u
    /\ returned' = {}
    /\ UNCHANGED storeFrame

NextStore ==
    \/ \E u \in Users : Select(u)
    \/ \E u \in Users : Insert(u)
    \/ \E u \in Users : Update(u)
    \/ \E u \in Users : Delete(u)

SpecStore == Init /\ [][NextStore]_vars

\* ------------------------------------------------------------------ claims
\* Shorthands used by the claims below.
\* The update of client c is answered by the store in this step.
UpdateAnswered(c) == pc[c] = "updating" /\ pc'[c] = "idle"
\* The rule of client c is evaluated in this step, the insert having succeeded.
RuleEvaluated(c) ==
    pc[c] = "inserted" /\ pc'[c] # "inserted" /\ ~insertError[c] /\ profile[c] # NULL
\* Local calendar day of the rule evaluation whose write is stored.
LastWriteDay == LocalDay(lastWrite.at, tz)
\* The stored date of p is absent or at least two days before the day of t.
Gap(p, t) ==
    \/ p.last_check_in_date = NULL
    \/ /\ p.last_check_in_date.k = "date"
       /\ p.last_check_in_date.d <= LocalDay(t, tz) - 2

\* C1: a second Dashboard check-in on the same local calendar day as the one
\* whose streak update is stored, made from a Profile copy that equals the
\* stored row, leaves current_streak, longest_streak and last_check_in_date
\* unchanged, in every zone.
C1_SameDayIdempotent ==
    [][\A c \in Clients :
        (/\ UpdateAnswered(c)
         /\ lastWrite # NULL
         /\ payload[c].from = profiles
         /\ LocalDay(payload[c].at, tz) = LastWriteDay)
        => profiles' = profiles]_vars

\* C2: the stored Profile always has longest_streak >= current_streak, also
\* when updates computed from stale copies are applied.
C2_LongestAtLeastCurrent == profiles.longest_streak >= profiles.current_streak

\* A client has read a streak of 1 from the store, and afterwards the store
\* applied an update computed from the initial Profile on another date: a
\* write from a stale copy has happened.
C2_StaleWriteApplied ==
    /\ lastWrite # NULL
    /\ lastWrite.from = NewProfile
    /\ profiles.current_streak = 1
    /\ \E c \in Clients :
        /\ profile[c].current_streak = 1
        /\ profile[c].last_check_in_date # profiles.last_check_in_date

\* C3: when the Profile read by the rule has last_check_in_date = yesterday
\* and current_streak = n, the stored result has current_streak = n + 1 and
\* longest_streak = max(old longest_streak, n + 1).
C3_YesterdayContinues ==
    (/\ lastWrite # NULL
     /\ lastWrite.from.last_check_in_date = Date(LastWriteDay - 1))
    => /\ profiles.current_streak = lastWrite.from.current_streak + 1
       /\ profiles.longest_streak =
            Max(lastWrite.from.longest_streak, lastWrite.from.current_streak + 1)

\* C4: when the Profile read by the rule has a last_check_in_date two or more
\* days in the past, or none, the check-in sends an update, and the stored
\* result has current_streak = 1 and longest_streak = max(old longest, 1).
C4_GapStored ==
    (lastWrite # NULL /\ Gap(lastWrite.from, lastWrite.at))
    => /\ profiles.current_streak = 1
       /\ profiles.longest_streak = Max(lastWrite.from.longest_streak, 1)

C4_GapFires ==
    [][\A c \in Clients :
        (RuleEvaluated(c) /\ Gap(profile[c], now)) => pc'[c] = "updating"]_vars

C4_GapResets == []C4_GapStored /\ C4_GapFires

\* The scenario of the specification: a Profile with a longer streak and a
\* stored date two or more days back has been reset to 1, longest kept.
C4_GapResetSeen ==
    /\ lastWrite # NULL
    /\ lastWrite.from.last_check_in_date.k = "date"
    /\ Gap(lastWrite.from, lastWrite.at)
    /\ lastWrite.from.current_streak >= 2
    /\ profiles.current_streak = 1
    /\ profiles.longest_streak = lastWrite.from.longest_streak

\* C5: once every submission has run to completion, current_streak equals the
\* number of consecutive local calendar days, ending at the day of the latest
\* check-in, that each contain a check_ins row.
CheckInDays == {LocalDay(check_ins[i].created_at, tz) : i \in 1..Len(check_ins)}
LatestDay == CHOOSE d \in CheckInDays : \A e \in CheckInDays : e <= d
ConsecutiveDays ==
    Cardinality({d \in CheckInDays : \A e \in d..LatestDay : e \in CheckInDays})

C5_StreakCountsCheckInDays ==
    (/\ check_ins # <<>>
     /\ \A c \in Clients : pc[c] = "idle" /\ ~updateError[c])
    => profiles.current_streak = ConsecutiveDays

\* C6: the stored last_check_in_date is the local calendar day of the rule
\* evaluation that wrote it, and the rule reads it back as that same day.
C6_PersistsLocalToday ==
    lastWrite # NULL =>
        /\ profiles.last_check_in_date = Date(LastWriteDay)
        /\ lastCheckIn(profiles, tz) = today(lastWrite.at, tz)

\* C7: when the store rejects the Profile update, the stored streak fields
\* are unchanged and every check_ins row, the one inserted by the same
\* submission included, is still there.
C7_FailedWriteKeepsStore ==
    [][\A c \in Clients :
        (UpdateAnswered(c) /\ updateError'[c])
        => /\ profiles' = profiles
           /\ check_ins' = check_ins
           /\ \E i \in 1..Len(check_ins') :
                 check_ins'[i].task_id = NULL]_vars

\* A Profile update has failed while the store still holds the default row
\* and the check-in of that submission.
C7_FailedWriteSeen ==
    \E c \in Clients :
        /\ updateError[c]
        /\ profiles = NewProfile
        /\ Len(check_ins) = 1
        /\ check_ins[1].task_id = NULL

\* C8: a client whose Profile update has failed has shown a message.
C8_FailureNotified == \A c \in Clients : updateError[c] => toasts[c] > 0

\* C9: when the Profile read by the rule has no last_check_in_date, or one
\* that does not parse as a date, the check-in sends an update and the stored
\* current_streak is 1.
NoUsableDate(p) == p.last_check_in_date \in {NULL, InvalidDate}

C9_NoDateStored ==
    (lastWrite # NULL /\ NoUsableDate(lastWrite.from))
    => profiles.current_streak = 1

C9_NoDateFires ==
    [][\A c \in Clients :
        (RuleEvaluated(c) /\ NoUsableDate(profile[c])) => pc'[c] = "updating"]_vars

C9_NoDateStartsAtOne == []C9_NoDateStored /\ C9_NoDateFires

\* A Profile with an unparseable date and a longer streak has been reset.
C9_InvalidDateSeen ==
    /\ lastWrite # NULL
    /\ lastWrite.from.last_check_in_date = InvalidDate
    /\ lastWrite.from.current_streak >= 2
    /\ profiles.current_streak = 1

\* C10: after a task-recommendations answer that is not 2xx, or whose body
\* lacks the recommendedTasks list, the panel has not crashed and displays no
\* recommended task.
LacksList(r) == r.body = NULL \/ r.body.kind # "canonical"

C10_DegradesToNone ==
    (lastResponse # NULL /\ (~Ok2xx(lastResponse) \/ LacksList(lastResponse)))
    => (~crashed /\ ShownTasks = <<>>)

\* C11: the panel writes to public.tasks only when the user accepts a
\* displayed recommendation, and that write sets the due_date of the accepted
\* task to the suggested date: every other column of that row and every other
\* row are unchanged.  Requesting, receiving and dismissing write nothing.
C11_OnlyAcceptWritesDueDate ==
    [][tasks' # tasks =>
        \E i \in 1..Len(ShownTasks) :
            LET task == ShownTasks[i] IN
            /\ tasks' = [tasks EXCEPT ![task.taskId].due_date = task.suggestedDate]
            /\ scheduledTasks' = scheduledTasks \cup {task.taskId}]_vars

\* One recommendation has been accepted and the other dismissed or pending:
\* t1 carries the suggested date, t2 is as it was created.
C11_OneTaskScheduled ==
    /\ tasks["t1"] = [NewTask EXCEPT !.due_date = Date(EpochDay + 1)]
    /\ tasks["t2"] = NewTask
    /\ "t1" \in scheduledTasks

\* C12: whatever store operation a user issues, the rows owned by the other
\* user are not among the rows returned, none of them is changed or removed,
\* and a row the operation creates is owned by the user who issued it.
C12_PerUserIsolation ==
    [][\A i \in RowIds :
        /\ (store[i] # NULL /\ store[i].owner # actor') => store'[i] = store[i]
        /\ (store[i] = NULL /\ store'[i] # NULL) => store'[i].owner = actor'
        /\ i \in returned' => store[i].owner = actor']_vars

\* C13: a check_ins row, once inserted, keeps every column and stays in the
\* table, whatever operation follows, the deletion of its task included.
C13_CheckInsImmutable ==
    [][\A i \in RowIds :
        (store[i] # NULL /\ store[i].tbl = "check_ins") => store'[i] = store[i]]_vars

\* C14 as stated: every change of the user's profiles row is made by the
\* streak update of a Dashboard check-in.
C14_OnlyStreakRuleWrites ==
    [][(profiles' # profiles \/ work_hours' # work_hours)
        => \E c \in Clients : UpdateAnswered(c)]_vars

\* C14, amended: the streak columns of the profiles row change only when
\* the store applies the streak update of a Dashboard check-in, which leaves
\* the work hours alone; the work hours change only in Settings.handleSave,
\* which leaves the streak columns and every check-in submission alone.
C14_TwoWritersDisjointColumns ==
    [][/\ profiles' # profiles =>
            /\ \E c \in Clients : UpdateAnswered(c)
            /\ work_hours' = work_hours
       /\ work_hours' # work_hours =>
            /\ profiles' = profiles
            /\ pc' = pc
            /\ ~loading']_vars

\* Both writers have acted: a streak is stored and the work hours are no
\* longer the defaults.
C14_BothWritersSeen ==
    /\ profiles.current_streak = 1
    /\ work_hours \in HourForms

\* C15: the streak update is a read-modify-write that is not atomic.  The
\* row the store holds after an update is the one computed from the Profile
\* copy of the device that wrote last, whatever the store held before (last
\* write wins); hence two devices can leave a stored Profile that differs
\* from the rule applied to the same check-ins one after another on a device
\* whose copy is up to date.
C15_LastWriteWins ==
    [][\A c \in Clients :
        (UpdateAnswered(c) /\ ~updateError'[c]) =>
            /\ profiles'.current_streak =
                  newStreak(payload[c].from, payload[c].at, tz)
            /\ profiles'.longest_streak =
                  NewLongest(payload[c].from, payload[c].at, tz)
            /\ profiles'.last_check_in_date = Date(payload[c].at \div 24)]_vars

\* The Profile a single device holds after handling the Dashboard check-ins
\* rows[i..] in order, each from the result of the one before.
RECURSIVE SerialProfile(_, _, _)
SerialProfile(rows, i, p) ==
    IF i > Len(rows) THEN p
    ELSE IF rows[i].task_id = NULL /\ RuleFires(p, rows[i].created_at, tz)
         THEN SerialProfile(rows, i + 1,
                  ApplyUpdate(p, UpdateBody(p, rows[i].created_at, tz)))
         ELSE SerialProfile(rows, i + 1, p)

\* Two Dashboard check-ins on consecutive days from two devices: the first
\* update was applied and read back by one device, the second was computed
\* by the other device from its copy of the initial Profile and applied
\* last.  The store holds a streak of 1 where the serial result is 2.
C15_DivergesFromSerial ==
    /\ Len(check_ins) = 2
    /\ \A i \in 1..2 : check_ins[i].task_id = NULL
    /\ \A c \in Clients : pc[c] = "idle"
    /\ lastWrite # NULL
    /\ lastWrite.from = NewProfile
    /\ \E c \in Clients :
          /\ profile[c].current_streak = 1
          /\ profile[c].last_check_in_date # profiles.last_check_in_date
    /\ profiles.current_streak = 1
    /\ SerialProfile(check_ins, 1, NewProfile).current_streak = 2

\* C16: when a task-recommendations request is answered with HTTP 401, the
\* panel signs the user out and leaves for the auth page, tells the user the
\* session has expired, and keeps `recommendations` as it was: nothing of
\* that response is stored.
C16_ExpiredSessionSignsOut ==
    [][(inflight' < inflight /\ lastResponse'.status = 401) =>
        /\ signedOut'
        /\ "Session expired" \in recToasts'
        /\ recommendations' = recommendations]_vars

\* A refresh of a loaded panel was answered with 401: the user is signed out
\* and the list loaded before is all the panel holds.
C16_SignedOutAfter401 ==
    /\ signedOut
    /\ lastResponse = Reply(401, ErrorBody)
    /\ recommendations = Canonical(<<Rec("t1")>>)

\* C17: the task-recommendations function calls the AI endpoint only in a
\* run that has resolved an authenticated user; a run without a valid user
\* answers with an error and does not call the AI endpoint.
C17_NoUserNoAICall ==
    lastServe # NULL =>
        /\ lastServe.called => lastServe.user
        /\ ~lastServe.user =>
              /\ ~lastServe.called
              /\ lastServe.reply = Reply(500, ErrorBody)

\* A request without a valid user has been served by a function whose API
\* key is configured, and the panel has handled the answer.
C17_ServedWithoutUser ==
    /\ lastServe # NULL
    /\ lastServe.key
    /\ ~lastServe.user
    /\ lastResponse = Reply(500, ErrorBody)

\* C18: the function answers an upstream 429 with 429, an upstream 402 with
\* 402 and every other upstream failure with 500, and what the panel shows
\* the user for a 402 or 429 differs from what it shows for a generic
\* failure.
C18_CapacityFailuresDistinct ==
    /\ \A up \in Upstreams :
          up.status # 200 =>
              serve(TRUE, TRUE, TRUE, up).status =
                  IF up.status \in {402, 429} THEN up.status ELSE 500
    /\ (lastResponse # NULL /\ lastResponse.status \in {402, 429})
          => lastToast # FailureToast(Reply(500, ErrorBody))

\* C19: when the store rejects an update issued from TaskWorkspace (of
\* progress, title, description, notes, priority, or the completion), the
\* task held in the page's state keeps the values it had, no task_history
\* row is written, and the stored row is unchanged.
C19_FailedUpdateKeepsTask ==
    [][(lastUpdate' # NULL /\ lastUpdate'.error) =>
        /\ wsTask' = wsTask
        /\ task_history' = task_history
        /\ tasks' = tasks]_vars

\* A title update has been rejected after a progress update had gone
\* through: the page holds the new progress and the old title, and the
\* history has the one entry of the progress change.
C19_FailedTitleSeen ==
    /\ lastUpdate = [field |-> "title", error |-> TRUE]
    /\ wsTask # NULL
    /\ wsTask.progress = 50
    /\ wsTask.title = "a"
    /\ wsTask = tasks[taskId]
    /\ Len(task_history) = 1
    /\ task_history[1].field_changed = "progress"

\* C20: for every window [start, end), frequency and time of day, the
\* scheduler reports, when the time is inside the window, a boundary of the
\* window divided evenly by the frequency that lies strictly after the time
\* and not after the end of the window; when the time is outside the window
\* it reports "outside work hours" and suggests the start of the next day.
C20_NextBoundaryAfterNow ==
    schedOut # NULL =>
        IF InWorkHours(schedIn)
        THEN /\ schedOut.isWorkHours
             /\ schedOut.day = 0
             /\ schedOut.scale = schedIn.frequency
             /\ \E k \in 0..schedIn.frequency :
                   schedOut.time = Scaled(schedIn, k)
             /\ schedOut.time > schedIn.at * schedIn.frequency
             /\ schedOut.time <= schedIn.end * schedIn.frequency
        ELSE /\ ~schedOut.isWorkHours
             /\ schedOut.text = "outside work hours"
             /\ schedOut.day = 1
             /\ schedOut.time = schedIn.start * schedOut.scale

\* Work hours 09:00-17:00 divided in four, at 11:00, which is a boundary
\* itself: the scheduler reports the boundary after it, 13:00.
C20_OnBoundarySeen ==
    /\ schedIn = [start |-> 540, end |-> 1020, frequency |-> 4, at |-> 660]
    /\ schedOut # NULL
    /\ schedOut.time = 780 * 4

\* C21: the stored longest_streak never decreases: every Profile write,
\* also one from a device whose Profile copy is older than the stored row,
\* leaves longest_streak at least as large as it was.
C21_LongestNeverDecreases ==
    [][profiles'.longest_streak >= profiles.longest_streak]_vars

\* C22: started from the same Profile and given the same check-in dates,
\* the older Dashboard handler and the current one have produced the same
\* current_streak, longest_streak and last_check_in_date after every
\* submission.
C22_HandlersEquivalent == oldProfiles = profiles

\* C23: in every state reachable through the task operations (toggle-complete
\* on the Dashboard, completeTask and updateProgress in TaskWorkspace), a
\* completed task has progress 100 and a completed_at, and a task that is not
\* completed has no completed_at.
C23_CompletedMeansDone ==
    LET t == tasks[taskId]
    IN  /\ t.status = "completed" => t.progress = 100 /\ t.completed_at # NULL
        /\ t.status # "completed" => t.completed_at = NULL

C25_LoadingWhileOutstanding ==
    (Mounted /\ inflight > 0) => isLoading

\* C26: every call of Settings.handleSave eventually sets loading back to
\* false, on every path: the update succeeded, the update failed, or there
\* is no authenticated user.
C26_SaveEndsLoading == loading ~> ~loading

\* C27: each started work session produces at most one row of work_sessions,
\* whatever the interleaving of End-session requests, a second request made
\* before the insert of the first has completed included.
C27_OneRowPerSession ==
    \A n \in 1..MaxSessions :
        Cardinality({i \in 1..Len(work_sessions) : work_sessions[i].of = n}) <= 1

C29_HistoryMatchesUpdates ==
    [][LET f == lastUpdate'.field
           Shown(row) == IF f = "progress" THEN ProgressText(row.progress)
                         ELSE Text(row[f])
       IN  /\ task_history' # task_history
                => lastUpdate' # NULL /\ ~lastUpdate'.error
           /\ tasks'[taskId] # tasks[taskId]
                => task_history' =
                       Append(task_history,
                              HistoryEntry(f, Shown(tasks[taskId]),
                                           Shown(tasks'[taskId])))]_vars

TypeOK ==
    /\ now \in EpochStart..MaxNow
    /\ tz \in Offsets
    /\ Len(check_ins) <= MaxCheckIns
====
